---- MODULE Spec2Model ----
(***************************************************************************)
(* The peer connection registry and handshake protocol of P2PChat_Snitcher *)
(* (src/P2P_Chat_Snitcher.py, the command-line node, and src/app.py, the   *)
(* web node).  One node is modelled: its registry active_peers, its        *)
(* Listener (server_thread), one Reader per connection (handle_client),    *)
(* the callers of send_message / connect_to_peer and the shutdown sequence *)
(* of main.  The remote peers and the network are the environment.         *)
(*                                                                         *)
(* Steps are cut where the code can be interleaved: every                  *)
(* "with peers_lock:" block is one atomic step, every blocking socket call *)
(* (accept, connect, recv, sendall) is a step of its own, and the code     *)
(* between that touches only thread-local variables is folded into the     *)
(* step before it.                                                         *)
(***************************************************************************)
EXTENDS Integers, Sequences, FiniteSets, TLC

(***************************************************************************)
(* Bounds of the model.                                                    *)
(***************************************************************************)
MaxConns == 2
MaxCallers == 2
\* Calls in progress at once where the whole node runs (Spec, LockSpec);
\* ConcurrentSpec lets every caller slot run.
MaxCalls == 1

Hosts == {"10.0.0.5"}
Ports == {70, 80}
Addr == Hosts \X Ports

\* The environment: inbound connections arrive from the remote address
\* (host, 70), the node is asked to reach (host, 80), and the peers declare
\* either port in their CONNECT frames.
AcceptAddrs == {<<"10.0.0.5", 70>>}
Targets == {<<"10.0.0.5", 80>>}

Conns == 1..MaxConns
Callers == 1..MaxCallers
None == 0
NoAddr == <<"", 0>>

(***************************************************************************)
(* Text.  A frame is the sequence of bytes one recv returns; a text is a   *)
(* sequence of one-character strings.  "0xFF" stands for a byte that is    *)
(* not valid UTF-8.                                                        *)
(***************************************************************************)
Whitespace == {" ", "\n", "\t", "\r"}
Digits == {"0", "1", "2", "3", "4", "5", "6", "7", "8", "9"}

DigitVal(ch) ==
  CASE ch = "0" -> 0 [] ch = "1" -> 1 [] ch = "2" -> 2 [] ch = "3" -> 3
    [] ch = "4" -> 4 [] ch = "5" -> 5 [] ch = "6" -> 6 [] ch = "7" -> 7
    [] ch = "8" -> 8 [] ch = "9" -> 9

\* bytes.decode(): the text of the bytes, or UnicodeDecodeError.
DecodeFails(data) == \E i \in 1..Len(data) : data[i] = "0xFF"

RECURSIVE LStrip(_)
LStrip(s) ==
  IF s # <<>> /\ Head(s) \in Whitespace THEN LStrip(Tail(s)) ELSE s

RECURSIVE RStrip(_)
RStrip(s) ==
  IF s # <<>> /\ s[Len(s)] \in Whitespace
    THEN RStrip(SubSeq(s, 1, Len(s) - 1))
    ELSE s

\* str.strip()
Strip(s) == RStrip(LStrip(s))

LowerChar(ch) ==
  CASE ch = "E" -> "e" [] ch = "X" -> "x" [] ch = "I" -> "i" [] ch = "T" -> "t"
    [] ch = "C" -> "c" [] ch = "O" -> "o" [] ch = "N" -> "n" [] ch = "H" -> "h"
    [] OTHER -> ch

\* str.lower()
Lower(s) == [i \in 1..Len(s) |-> LowerChar(s[i])]

\* str.startswith(prefix)
StartsWith(s, prefix) ==
  Len(s) >= Len(prefix) /\ SubSeq(s, 1, Len(prefix)) = prefix

ConnectPrefix == <<"C", "O", "N", "N", "E", "C", "T", ":">>
ExitText == <<"e", "x", "i", "t">>

\* message.split(":", 1)[1]: what follows the first colon.
RECURSIVE AfterColon(_)
AfterColon(s) ==
  IF s = <<>> THEN <<>>
  ELSE IF Head(s) = ":" THEN Tail(s)
  ELSE AfterColon(Tail(s))

RECURSIVE DigitsVal(_, _)
DigitsVal(s, acc) ==
  IF s = <<>> THEN acc ELSE DigitsVal(Tail(s), 10 * acc + DigitVal(Head(s)))

\* int(text): surrounding whitespace and one sign are accepted, then one
\* or more decimal digits; anything else is ValueError.
IntBody(s) ==
  LET t == Strip(s)
  IN  IF t # <<>> /\ Head(t) \in {"+", "-"} THEN Tail(t) ELSE t

IntOk(s) ==
  LET b == IntBody(s)
  IN  b # <<>> /\ \A i \in 1..Len(b) : b[i] \in Digits

IntVal(s) ==
  LET t == Strip(s)
      v == DigitsVal(IntBody(s), 0)
  IN  IF t # <<>> /\ Head(t) = "-" THEN 0 - v ELSE v

(***************************************************************************)
(* What the body of the Reader's loop does with the bytes of one recv,     *)
(* up to the point where it takes the lock or leaves the loop.             *)
(*   "eof"      zero-length read: break                                    *)
(*   "raise"    decode raised: the except clause, then finally             *)
(*   "blank"    empty after strip: continue                                *)
(*   "badport"  CONNECT: with a ValueError: continue                       *)
(*   "connect"  CONNECT:<int>: the re-key block                            *)
(*   "exit"     break                                                      *)
(*   "chat"     forwarded to the sink                                      *)
(***************************************************************************)
FrameKind(data) ==
  IF data = <<>> THEN "eof"
  ELSE IF DecodeFails(data) THEN "raise"
  ELSE LET text == Strip(data)
       IN  IF text = <<>> THEN "blank"
           ELSE IF StartsWith(text, ConnectPrefix)
             THEN IF IntOk(AfterColon(text)) THEN "connect" ELSE "badport"
           ELSE IF Lower(text) = ExitText THEN "exit"
           ELSE "chat"

\* sender_listen_port of a frame of kind "connect".
FramePort(data) == IntVal(AfterColon(Strip(data)))

\* The frames the remote peers send.
Frames ==
  { <<"C", "O", "N", "N", "E", "C", "T", ":", "7", "0">>,
    <<"C", "O", "N", "N", "E", "C", "T", ":", " ", "8", "0", "\n">>,
    <<"C", "O", "N", "N", "E", "C", "T", ":", "7", "x">>,
    <<"e", "x", "i", "t">>,
    <<" ", "E", "x", "I", "T", "\n">>,
    <<" ", "\n">>,
    <<"h", "i">>,
    <<"h", "0xFF">>,
    <<>> }

\* A payload that is "exit" up to letter case.
MixedCaseExit == <<"E", "x", "i", "T">>

\* The payloads the callers of send_message pass.
Payloads ==
  { <<"h", "i">>,
    MixedCaseExit }

\* message.lower() == "exit" in send_message (no strip there).
IsExitPayload(text) == Lower(text) = ExitText

(***************************************************************************)
(* State.                                                                  *)
(***************************************************************************)
VARIABLES
  node,            \* "cli": P2P_Chat_Snitcher.py, "web": app.py
  active_peers,    \* the registry: address -> socket, None where no key
  stream,          \* per socket: "unborn", "open" or "closed" (local end)
  nconn,           \* sockets created so far (accepted or dialled)
  shutdown_event,  \* the shutdown flag
  listen_open,     \* the listening socket is open
  lpc,             \* server_thread: "accept", "register", "spawn", "stopped"
  acc,             \* server_thread's (conn, addr) of the last accept
  rpc,             \* handle_client per socket: "none", "recv", "rekey",
                   \*   "finally", "done"
  current_peer,    \* handle_client's current_peer
  new_peer,        \* handle_client's new_peer while the re-key block is pending
  spc,             \* send_message / connect_to_peer per caller: "idle", "dial",
                   \*   "start", "write", "pop_exit", "pop_fail", "close_exit",
                   \*   "close_fail"
  target,          \* the caller's target
  message,         \* the caller's message
  sock,            \* the caller's sock
  is_new,          \* the caller dialled sock itself
  mpc,             \* main's shutdown sequence: "run", "clear", "lclose", "done"
  peers_lock,      \* the threads inside a "with peers_lock:" block
  declared,        \* per socket: the address of the last CONNECT frame its
                   \*   Reader applied (history, for stating the claims)
  pair,            \* the two programs side by side, each with its own
                   \*   registry, sockets and Readers (PairSpec)
  last             \* the last step taken (history, for stating the claims)

vars ==
  << node, active_peers, stream, nconn, shutdown_event, listen_open, lpc, acc,
     rpc, current_peer, new_peer, spc, target, message, sock, is_new,
     mpc, peers_lock, declared, pair, last >>

nodeVars ==
  << node, active_peers, stream, nconn, shutdown_event, listen_open, lpc, acc,
     rpc, current_peer, new_peer, spc, target, message, sock, is_new,
     mpc, peers_lock, declared, last >>

regVars == << active_peers, stream >>
listenerVars == << lpc, acc >>
readerVars == << rpc, current_peer, new_peer, declared >>
callerVars == << spc, target, message, sock, is_new >>
mainVars == << shutdown_event, listen_open, mpc >>

\* The threads: main starts server_thread; server_thread and the callers
\* start one handle_client per socket; the callers are main itself (the
\* command-line menu) or request threads (the web routes).
ListenerThread == << "server_thread", 0 >>
MainThread == << "main", 0 >>
ReaderThread(c) == << "handle_client", c >>
CallerThread(k) == << "caller", k >>
Threads ==
  {ListenerThread, MainThread} \cup {ReaderThread(c) : c \in Conns}
    \cup {CallerThread(k) : k \in Callers}

\* "with peers_lock:" taken as one step by thread t: the lock is got (or
\* was got by t in a step of its own, where the specification takes the
\* acquisition apart), the block runs, the lock is released.
WithLock(t) ==
  /\ peers_lock \subseteq {t}
  /\ peers_lock' = {}

NoAcc == [conn |-> None, addr |-> NoAddr]
NoText == <<"-">>

\* A step's record: what was done (op), on which socket (c), at which
\* address (a); d is the socket that held a before the step (None if the
\* key was absent), b the address the step left, e the socket that held b
\* before the step, f a flag of the step (for a re-key, the state of the
\* Reader's own stream before it); a re-key also records the number of
\* keys its socket was registered under before it (m).
Ev(op, c, a, d, b, e, f) ==
  [op |-> op, c |-> c, a |-> a, d |-> d, b |-> b, e |-> e, f |-> f]

Quiet(op) == Ev(op, None, NoAddr, None, NoAddr, None, "")

\* my_listen_port and the text of f"CONNECT:{my_listen_port}".
ConnectMsg == <<"C", "O", "N", "N", "E", "C", "T", ":", "8", "0">>

\* "while not shutdown_event.is_set()" at the top of the Reader's loop and
\* of the Listener's: the test is made at the end of the step that reaches
\* it.  (A thread that makes the test later and finds the flag set leaves
\* its loop as it does when its blocking call raises instead.)
ReaderTop(flag) == IF flag THEN "finally" ELSE "recv"

ListenerTopStop(flag) == "stopped"

ListenerTopLoop(flag) == "accept"

ListenerTop(flag) == IF flag THEN "stopped" ELSE "accept"

\* A program that has just started: no socket, no Reader, empty registry.
Started ==
  [active_peers |-> [a \in Addr |-> None],
   stream |-> [c \in Conns |-> "unborn"],
   current_peer |-> [c \in Conns |-> NoAddr],
   running |-> [c \in Conns |-> FALSE],
   nconn |-> 0]

Init ==
  /\ node \in {"cli", "web"}
  /\ pair = [cli |-> Started, web |-> Started]
  /\ active_peers = [a \in Addr |-> None]
  /\ stream = [c \in Conns |-> "unborn"]
  /\ nconn = 0
  /\ shutdown_event = FALSE
  /\ listen_open = TRUE
  /\ lpc = "accept"
  /\ acc = NoAcc
  /\ rpc = [c \in Conns |-> "none"]
  /\ current_peer = [c \in Conns |-> NoAddr]
  /\ new_peer = [c \in Conns |-> NoAddr]
  /\ spc = [k \in Callers |-> "idle"]
  /\ target = [k \in Callers |-> NoAddr]
  /\ message = [k \in Callers |-> NoText]
  /\ sock = [k \in Callers |-> None]
  /\ is_new = [k \in Callers |-> FALSE]
  /\ mpc = "run"
  /\ peers_lock = {}
  /\ declared = [c \in Conns |-> NoAddr]
  /\ last = Quiet("init")

(***************************************************************************)
(* Registry operations, as the code writes them inside peers_lock.         *)
(***************************************************************************)
\* active_peers[addr] = conn
RegSet(reg, addr, conn) == [reg EXCEPT ![addr] = conn]

\* active_peers.pop(addr, None); also "if addr in active_peers: pop(addr)"
RegPop(reg, addr) ==
  IF addr \in DOMAIN reg THEN [reg EXCEPT ![addr] = None] ELSE reg

RegGetMiss(reg, addr) == None

\* active_peers.get(addr)
RegGet(reg, addr) == IF addr \in DOMAIN reg THEN reg[addr] ELSE None

\* The keys under which conn is registered.
Entries(reg, conn) == {a \in DOMAIN reg : reg[a] = conn}

\* sock.close()
Closed(str, conn) == [str EXCEPT ![conn] = "closed"]

(***************************************************************************)
(* The Listener: server_thread.                                            *)
(***************************************************************************)
\* accept() ends with socket.timeout after the poll interval: continue.
AcceptTimeout ==
  /\ lpc = "accept"
  /\ listen_open
  /\ lpc' = ListenerTop(shutdown_event)
  /\ last' = Quiet("accept_timeout")
  /\ UNCHANGED << pair, node, peers_lock, regVars, nconn, acc, readerVars, callerVars, mainVars >>

\* accept() raises anything else (the listening socket was closed, or the
\* operating system refused): break.
AcceptError ==
  /\ lpc = "accept"
  /\ lpc' = "stopped"
  /\ last' = Quiet("accept_error")
  /\ UNCHANGED << pair, node, peers_lock, regVars, nconn, acc, readerVars, callerVars, mainVars >>

\* accept() returns a connection from the remote address addr.
Accept(addr) ==
  /\ lpc = "accept"
  /\ listen_open
  /\ nconn < MaxConns
  /\ nconn' = nconn + 1
  /\ stream' = [stream EXCEPT ![nconn + 1] = "open"]
  /\ acc' = [conn |-> nconn + 1, addr |-> addr]
  /\ lpc' = "register"
  /\ last' = Ev("accept", nconn + 1, addr, None, NoAddr, None, "")
  /\ UNCHANGED << pair, node, peers_lock, active_peers, readerVars, callerVars, mainVars >>

\* What a registration that finds the key taken does to the socket that
\* holds it: the Listener and the callers overwrite the entry and leave
\* the socket as it is.
InsertEvict(reg, str, addr) == str

\* with peers_lock: active_peers[addr] = conn
ListenerRegister ==
  /\ lpc = "register"
  /\ WithLock(ListenerThread)
  /\ stream' = InsertEvict(active_peers, stream, acc.addr)
  /\ active_peers' = RegSet(active_peers, acc.addr, acc.conn)
  /\ lpc' = "spawn"
  /\ last' = Ev("register", acc.conn, acc.addr, active_peers[acc.addr],
                NoAddr, None, "accept")
  /\ UNCHANGED << pair, node, nconn, acc, readerVars, callerVars, mainVars >>

\* threading.Thread(target=handle_client, args=(conn, addr)).start()
ListenerSpawn ==
  /\ lpc = "spawn"
  /\ rpc' = [rpc EXCEPT ![acc.conn] = ReaderTop(shutdown_event)]
  /\ current_peer' = [current_peer EXCEPT ![acc.conn] = acc.addr]
  /\ acc' = NoAcc
  /\ lpc' = ListenerTop(shutdown_event)
  /\ last' = Ev("spawn", acc.conn, acc.addr, None, NoAddr, None, "accept")
  /\ UNCHANGED << pair, node, peers_lock, regVars, nconn, new_peer, declared, callerVars, mainVars >>

(***************************************************************************)
(* The Reader: handle_client(conn, addr), one per socket.                  *)
(***************************************************************************)
\* conn.recv(1024) raises (the socket was closed on this side, or the
\* connection was reset): the except clause, then finally.
RecvError(c) ==
  /\ rpc[c] = "recv"
  /\ rpc' = [rpc EXCEPT ![c] = "finally"]
  /\ last' = Ev("frame", c, current_peer[c], None, NoAddr, None, "error")
  /\ UNCHANGED << pair, node, peers_lock, regVars, nconn, listenerVars, current_peer, new_peer,
                  declared, callerVars, mainVars >>

\* The address a CONNECT frame declares: (current_peer[0], sender_listen_port).
NewPeer(cur, data) == << cur[1], FramePort(data) >>

AfterFrameStrict(kind, flag) ==
  CASE kind \in {"eof", "exit", "raise", "badport"} -> "finally"
    [] kind \in {"blank", "chat"} -> ReaderTop(flag)
    [] kind = "connect" -> "rekey"

AfterFrameBlankEof(kind, flag) ==
  CASE kind \in {"eof", "exit", "raise", "blank"} -> "finally"
    [] kind \in {"badport", "chat"} -> ReaderTop(flag)
    [] kind = "connect" -> "rekey"

\* Where the loop body goes with a frame of each kind.
AfterFrame(kind, flag) ==
  CASE kind \in {"eof", "exit", "raise"} -> "finally"
    [] kind \in {"blank", "badport", "chat"} -> ReaderTop(flag)
    [] kind = "connect" -> "rekey"

\* conn.recv(1024) returns data on an open socket; the loop body runs up
\* to its break, its continue, or the door of the re-key block.  (Bytes
\* that arrive while another thread closes the socket are the case of this
\* step before the close and the next step of this Reader after it.)
Recv(c, data) ==
  /\ rpc[c] = "recv"
  /\ stream[c] = "open"
  /\ LET kind == FrameKind(data)
     IN  /\ rpc' = [rpc EXCEPT ![c] = AfterFrame(kind, shutdown_event)]
         /\ new_peer' = [new_peer EXCEPT ![c] =
                           IF kind = "connect" THEN NewPeer(current_peer[c], data)
                           ELSE NoAddr]
         /\ last' = Ev("frame", c, current_peer[c], None, NoAddr, None, kind)
  /\ UNCHANGED << pair, node, peers_lock, regVars, nconn, listenerVars, current_peer, declared,
                  callerVars, mainVars >>

\* The re-key block, "with peers_lock:" of the CONNECT branch:
\*   if current_peer in active_peers: active_peers.pop(current_peer)
RekeyPopOldSkip(reg, cur, conn) == reg

RekeyPopOld(reg, cur, conn) == RegPop(reg, cur)

\*   if new_peer in active_peers: active_peers[new_peer].close()
RekeyEvict(reg, str, new) ==
  IF RegGet(reg, new) # None THEN Closed(str, RegGet(reg, new)) ELSE str

RekeyInsertIfFree(reg, new, conn) ==
  IF RegGet(reg, new) = None THEN RegSet(reg, new, conn) ELSE RegPop(reg, new)

\*   active_peers[new_peer] = conn
RekeyInsert(reg, new, conn) == RegSet(reg, new, conn)

\* "current_peer = new_peer" after the block: app.py line 89; the
\* command-line node has no such line.
RekeyCurrent(n, cur, new) == IF n = "web" THEN new ELSE cur

ReaderRekey(c) ==
  /\ rpc[c] = "rekey"
  /\ WithLock(ReaderThread(c))
  /\ LET old == current_peer[c]
         new == new_peer[c]
         reg1 == RekeyPopOld(active_peers, old, c)
     IN  /\ stream' = RekeyEvict(reg1, stream, new)
         /\ active_peers' = RekeyInsert(reg1, new, c)
         /\ current_peer' = [current_peer EXCEPT ![c] = RekeyCurrent(node, old, new)]
         /\ last' = [op |-> "rekey", c |-> c, a |-> new, d |-> reg1[new],
                     b |-> old, e |-> active_peers[old], f |-> stream[c],
                     m |-> Cardinality(Entries(active_peers, c))]
  /\ declared' = [declared EXCEPT ![c] = new_peer[c]]
  /\ new_peer' = [new_peer EXCEPT ![c] = NoAddr]
  /\ rpc' = [rpc EXCEPT ![c] = ReaderTop(shutdown_event)]
  /\ UNCHANGED << pair, node, nconn, listenerVars, callerVars, mainVars >>

\* finally: with peers_lock: if current_peer in active_peers: pop it.
CleanupPop(reg, cur, conn) == RegPop(reg, cur)

\* finally: conn.close()
ReaderCloseStream(str, conn) == Closed(str, conn)

\* The finally clause: the pop under the lock, then the close; the thread
\* ends and its locals with it.  (The close acts on this socket alone and
\* is idempotent, so it is taken with the block before it.)
ReaderFinally(c) ==
  /\ rpc[c] = "finally"
  /\ WithLock(ReaderThread(c))
  /\ active_peers' = CleanupPop(active_peers, current_peer[c], c)
  /\ stream' = ReaderCloseStream(stream, c)
  /\ rpc' = [rpc EXCEPT ![c] = "done"]
  /\ current_peer' = [current_peer EXCEPT ![c] = NoAddr]
  /\ declared' = [declared EXCEPT ![c] = NoAddr]
  /\ last' = Ev("cleanup", c, current_peer[c], active_peers[current_peer[c]],
                NoAddr, None, "")
  /\ UNCHANGED << pair, node, nconn, listenerVars, new_peer, callerVars, mainVars >>

(***************************************************************************)
(* The callers: send_message(target, message) and connect_to_peer(target), *)
(* which is send_message with the message CONNECT:<my_listen_port> and     *)
(* without the exit branch.                                                *)
(***************************************************************************)
\* The command-line node calls from its one main thread, which also runs
\* the shutdown sequence; the web node calls from Flask's request threads
\* and from the threads its /connect route starts.  Concurrent calls take
\* the caller slots in order (which slot a call runs in is immaterial).
MayStart(k, n) ==
  /\ mpc = "run"
  /\ node = "cli" => \A j \in Callers : spc[j] = "idle"
  /\ \A j \in Callers : j < k => spc[j] # "idle"
  /\ Cardinality({j \in Callers : spc[j] # "idle"}) < n

MayCall(k) == MayStart(k, MaxCalls)

\* What send_message and connect_to_peer hand back to their caller on the
\* path that ends with the given outcome: the bare "return" of the dial's
\* except clause and the end of the function body both yield None.
Result(outcome) == None

\* A caller's step also records the caller (k), its message (g), whether
\* the call dialled (n) and, where the step is the call's return with
\* outcome f, the value returned (r).
CallerEv(op, k, f) ==
  [op |-> op, c |-> sock[k], a |-> target[k], d |-> active_peers[target[k]],
   b |-> NoAddr, e |-> None, f |-> f, g |-> message[k], n |-> is_new[k],
   k |-> k, r |-> Result(f)]

\* The call, up to the end of its first block:
\* with peers_lock: sock = active_peers.get(target)
CallAmong(k, t, text, n) ==
  /\ spc[k] = "idle"
  /\ WithLock(CallerThread(k))
  /\ MayStart(k, n)
  /\ target' = [target EXCEPT ![k] = t]
  /\ message' = [message EXCEPT ![k] = text]
  /\ sock' = [sock EXCEPT ![k] = RegGet(active_peers, t)]
  /\ is_new' = [is_new EXCEPT ![k] = FALSE]
  /\ spc' = [spc EXCEPT ![k] = IF RegGet(active_peers, t) = None THEN "dial" ELSE "write"]
  /\ last' = [op |-> "lookup", c |-> RegGet(active_peers, t), a |-> t,
              d |-> active_peers[t], b |-> NoAddr, e |-> None, f |-> "",
              g |-> text, n |-> FALSE, k |-> k, r |-> None]
  /\ UNCHANGED << pair, node, regVars, nconn, listenerVars, readerVars, mainVars >>

Call(k, t, text) == CallAmong(k, t, text, MaxCalls)

\* The function returns: the caller's locals are gone.
Return(k) ==
  /\ spc' = [spc EXCEPT ![k] = "idle"]
  /\ target' = [target EXCEPT ![k] = NoAddr]
  /\ message' = [message EXCEPT ![k] = NoText]
  /\ sock' = [sock EXCEPT ![k] = None]
  /\ is_new' = [is_new EXCEPT ![k] = FALSE]

DialFailRegPop(reg, t) == RegPop(reg, t)

\* What a failed dial does to the registry: nothing ("except: print; return").
DialFailReg(reg, t) == reg

\* sock.connect(target) raises (refused, timed out): print and return.
DialFail(k) ==
  /\ spc[k] = "dial"
  /\ active_peers' = DialFailReg(active_peers, target[k])
  /\ Return(k)
  /\ last' = CallerEv("return", k, "dial_failed")
  /\ UNCHANGED << pair, node, peers_lock, stream, nconn, listenerVars, readerVars, mainVars >>

DialInsertSkip(reg, t, conn) == reg

\* with peers_lock: active_peers[sock.getpeername()] = sock
DialInsert(reg, t, conn) == RegSet(reg, t, conn)

\* sock.connect(target) succeeds; settimeout(None); the insert block.
\* The new socket is known to this thread alone until the block, and its
\* peer name is the dialled target.
Dial(k) ==
  /\ spc[k] = "dial"
  /\ WithLock(CallerThread(k))
  /\ nconn < MaxConns
  /\ nconn' = nconn + 1
  /\ stream' = [InsertEvict(active_peers, stream, target[k]) EXCEPT ![nconn + 1] = "open"]
  /\ active_peers' = DialInsert(active_peers, target[k], nconn + 1)
  /\ sock' = [sock EXCEPT ![k] = nconn + 1]
  /\ is_new' = [is_new EXCEPT ![k] = TRUE]
  /\ spc' = [spc EXCEPT ![k] = "start"]
  /\ last' = [CallerEv("register", k, "dial") EXCEPT !.c = nconn + 1, !.n = TRUE]
  /\ UNCHANGED << pair, node, listenerVars, readerVars, target, message, mainVars >>

\* Thread(target=handle_client, args=(sock, sock.getpeername())).start()
StartReader(k) ==
  /\ spc[k] = "start"
  /\ stream[sock[k]] = "open"
  /\ rpc' = [rpc EXCEPT ![sock[k]] = ReaderTop(shutdown_event)]
  /\ current_peer' = [current_peer EXCEPT ![sock[k]] = target[k]]
  /\ spc' = [spc EXCEPT ![k] = "write"]
  /\ last' = CallerEv("spawn", k, "dial")
  /\ UNCHANGED << pair, node, peers_lock, regVars, nconn, listenerVars, new_peer, declared,
                  target, message, sock, is_new, mainVars >>

\* sock.getpeername() raises on a socket another thread has closed: the
\* except clause of the dial prints and returns.
StartRaises(k) ==
  /\ spc[k] = "start"
  /\ stream[sock[k]] = "closed"
  /\ Return(k)
  /\ last' = CallerEv("return", k, "start_failed")
  /\ UNCHANGED << pair, node, peers_lock, regVars, nconn, listenerVars, readerVars, mainVars >>

ExitBranchExact(text) == text # ConnectMsg /\ text = ExitText

\* if message.lower() == "exit": only send_message has the branch;
\* connect_to_peer is the call whose message is ConnectMsg.
ExitBranch(text) == text # ConnectMsg /\ IsExitPayload(text)

\* sock.sendall(message.encode()) succeeds.
WriteOk(k) ==
  /\ spc[k] = "write"
  /\ stream[sock[k]] = "open"
  /\ IF ExitBranch(message[k])
       THEN /\ spc' = [spc EXCEPT ![k] = "pop_exit"]
            /\ last' = CallerEv("written", k, "exit")
            /\ UNCHANGED << target, message, sock, is_new >>
       ELSE /\ Return(k)
            /\ last' = CallerEv("return", k, "sent")
  /\ UNCHANGED << pair, node, peers_lock, regVars, nconn, listenerVars, readerVars, mainVars >>

\* sock.sendall raises (the socket was closed on this side, or the
\* connection is broken): the except clause.
WriteFail(k) ==
  /\ spc[k] = "write"
  /\ spc' = [spc EXCEPT ![k] = "pop_fail"]
  /\ last' = CallerEv("write_failed", k, stream[sock[k]])
  /\ UNCHANGED << pair, node, peers_lock, regVars, nconn, listenerVars, readerVars, target,
                  message, sock, is_new, mainVars >>

SenderPopSkip(reg, t, conn) == reg

\* with peers_lock: active_peers.pop(target, None)
SenderPop(reg, t, conn) == RegPop(reg, t)

\* The pop of the exit branch and of the except clause.
CallerPop(k) ==
  /\ spc[k] \in {"pop_exit", "pop_fail"}
  /\ WithLock(CallerThread(k))
  /\ active_peers' = SenderPop(active_peers, target[k], sock[k])
  /\ spc' = [spc EXCEPT ![k] = IF spc[k] = "pop_exit" THEN "close_exit" ELSE "close_fail"]
  /\ last' = CallerEv("pop", k, IF spc[k] = "pop_exit" THEN "exit" ELSE "write_failed")
  /\ UNCHANGED << pair, node, stream, nconn, listenerVars, readerVars, target,
                  message, sock, is_new, mainVars >>

\* What the caller does to its socket after the pop: sock.close().
SenderClose(str, conn) == Closed(str, conn)

CallerClose(k) ==
  /\ spc[k] \in {"close_exit", "close_fail"}
  /\ stream' = SenderClose(stream, sock[k])
  /\ Return(k)
  /\ last' = CallerEv("return", k, IF spc[k] = "close_exit" THEN "exit" ELSE "write_failed")
  /\ UNCHANGED << pair, node, peers_lock, active_peers, nconn, listenerVars, readerVars, mainVars >>

(***************************************************************************)
(* main's shutdown sequence.                                               *)
(***************************************************************************)
\* shutdown_event.set(): the menu's Quit (the main thread is then in no
\* call) or the end of app.run.
ShutdownSet ==
  /\ mpc = "run"
  /\ node = "cli" => \A k \in Callers : spc[k] = "idle"
  /\ shutdown_event' = TRUE
  /\ mpc' = "clear"
  /\ last' = Quiet("shutdown_set")
  /\ UNCHANGED << pair, node, peers_lock, regVars, nconn, listen_open, listenerVars, readerVars,
                  callerVars >>

\* with peers_lock: close every registered socket; active_peers.clear()
ShutdownClear ==
  /\ mpc = "clear"
  /\ WithLock(MainThread)
  /\ stream' = [c \in Conns |->
                  IF \E a \in Addr : active_peers[a] = c THEN "closed" ELSE stream[c]]
  /\ active_peers' = [a \in Addr |-> None]
  /\ mpc' = "lclose"
  /\ last' = Quiet("shutdown_clear")
  /\ UNCHANGED << pair, node, nconn, shutdown_event, listen_open, listenerVars,
                  readerVars, callerVars >>

\* listen_socket.close()
ShutdownListener ==
  /\ mpc = "lclose"
  /\ listen_open' = FALSE
  /\ mpc' = "done"
  /\ last' = Quiet("shutdown_listener")
  /\ UNCHANGED << pair, node, peers_lock, regVars, nconn, shutdown_event, listenerVars, readerVars,
                  callerVars >>

(***************************************************************************)
(* The specification.                                                      *)
(***************************************************************************)
Listener ==
  \/ AcceptTimeout
  \/ AcceptError
  \/ \E addr \in AcceptAddrs : Accept(addr)
  \/ ListenerRegister
  \/ ListenerSpawn

Reader(c) ==
  \/ RecvError(c)
  \/ \E data \in Frames : Recv(c, data)
  \/ ReaderRekey(c)
  \/ ReaderFinally(c)

Caller(k) ==
  \/ \E t \in Targets : \E text \in Payloads \cup {ConnectMsg} : Call(k, t, text)
  \/ DialFail(k)
  \/ Dial(k)
  \/ StartReader(k)
  \/ StartRaises(k)
  \/ WriteOk(k)
  \/ WriteFail(k)
  \/ CallerPop(k)
  \/ CallerClose(k)

Shutdown ==
  \/ ShutdownSet
  \/ ShutdownClear
  \/ ShutdownListener

Next ==
  \/ Listener
  \/ \E c \in Conns : Reader(c)
  \/ \E k \in Callers : Caller(k)
  \/ Shutdown

Spec == Init /\ [][Next]_vars

\* The node while nobody calls send_message or connect_to_peer: the
\* Listener, the Readers of the sockets it accepts, and the shutdown
\* sequence.  (The callers read and write nothing the Listener's loop
\* reads.)
InboundNext ==
  \/ Listener
  \/ \E c \in Conns : Reader(c)
  \/ Shutdown

\* The Listener's thread is scheduled, and none of its steps waits for
\* ever: accept() returns or raises within the poll interval set by
\* settimeout(1.0), the registry lock is always released, and starting a
\* thread does not block.
ListenerFairSpec == Init /\ [][InboundNext]_vars /\ WF_vars(Listener)

(***************************************************************************)
(* Concurrent calls.  The web node's Flask server handles each request in  *)
(* a thread of its own and the /connect route starts one more thread per   *)
(* request, so calls of send_message and connect_to_peer overlap; here     *)
(* every caller slot may run, next to the Readers the calls start.  (The   *)
(* command-line node calls from its main thread only: one call at a time.) *)
(***************************************************************************)
ConcurrentCall(k, t, text) == CallAmong(k, t, text, MaxCallers)

ConcurrentFrames ==
  { <<"C","O","N","N","E","C","T",":","8","0">>, <<"h","i">>, <<>> }

ConcurrentNext ==
  \/ \E k \in Callers :
       \/ \E t \in Targets : \E text \in Payloads \cup {ConnectMsg} :
            ConcurrentCall(k, t, text)
       \/ DialFail(k)
       \/ Dial(k)
       \/ StartReader(k)
       \/ StartRaises(k)
       \/ WriteOk(k)
       \/ WriteFail(k)
       \/ CallerPop(k)
       \/ CallerClose(k)
  \/ \E c \in Conns :
       \/ RecvError(c)
       \/ \E data \in ConcurrentFrames : Recv(c, data)
       \/ ReaderRekey(c)
       \/ ReaderFinally(c)

ConcurrentSpec == Init /\ [][ConcurrentNext]_vars

(***************************************************************************)
(* The two programs side by side.  P2P_Chat_Snitcher.py and app.py are     *)
(* given the same events, one at a time, and each handles an event to its  *)
(* end before the next one: an inbound connection (one iteration of        *)
(* server_thread), the bytes one recv returns on a socket (one iteration   *)
(* of handle_client's loop, with the finally clause where the loop ends),  *)
(* and a call of send_message or connect_to_peer.  st is one program's     *)
(* state: its registry, its sockets, and per socket whether its Reader is  *)
(* running and that Reader's current_peer.                                 *)
(***************************************************************************)
\* server_thread: accept, registration, start of the Reader.
HandleAccept(n, st, addr) ==
  IF st.nconn >= MaxConns THEN st
  ELSE LET c == st.nconn + 1
       IN  [st EXCEPT
              !.nconn = c,
              !.stream = [InsertEvict(st.active_peers, st.stream, addr)
                            EXCEPT ![c] = "open"],
              !.active_peers = RegSet(st.active_peers, addr, c),
              !.current_peer = [st.current_peer EXCEPT ![c] = addr],
              !.running = [st.running EXCEPT ![c] = TRUE]]

\* handle_client's finally clause.
HandleCleanup(n, st, c) ==
  [st EXCEPT
     !.active_peers = CleanupPop(st.active_peers, st.current_peer[c], c),
     !.stream = ReaderCloseStream(st.stream, c),
     !.current_peer = [st.current_peer EXCEPT ![c] = NoAddr],
     !.running = [st.running EXCEPT ![c] = FALSE]]

\* handle_client's CONNECT branch.
HandleRekey(n, st, c, data) ==
  LET old == st.current_peer[c]
      new == NewPeer(old, data)
      reg1 == RekeyPopOld(st.active_peers, old, c)
  IN  [st EXCEPT
         !.stream = RekeyEvict(reg1, st.stream, new),
         !.active_peers = RekeyInsert(reg1, new, c),
         !.current_peer = [st.current_peer EXCEPT ![c] = RekeyCurrent(n, old, new)]]

\* One iteration of handle_client's loop on socket c, the peer having sent
\* data: recv raises on a socket this program has closed, and returns data
\* otherwise.  A Reader that has ended reads nothing.
HandleFrame(n, st, c, data) ==
  IF ~st.running[c] THEN st
  ELSE IF st.stream[c] # "open" THEN HandleCleanup(n, st, c)
  ELSE CASE AfterFrame(FrameKind(data), FALSE) = "finally" -> HandleCleanup(n, st, c)
         [] AfterFrame(FrameKind(data), FALSE) = "rekey" -> HandleRekey(n, st, c, data)
         [] OTHER -> st

\* send_message(t, text), and connect_to_peer(t) where text is ConnectMsg:
\* lookup, dial and registration where the lookup finds nothing (the dial
\* fails once MaxConns sockets exist), the write, which succeeds on an open
\* socket, and the pop and close of the exit branch or of the failed write.
HandleSend(n, st, t, text) ==
  LET found == RegGet(st.active_peers, t)
      c == IF found = None THEN st.nconn + 1 ELSE found
      s1 == IF found # None THEN st
            ELSE [st EXCEPT
                    !.nconn = c,
                    !.stream = [InsertEvict(st.active_peers, st.stream, t)
                                  EXCEPT ![c] = "open"],
                    !.active_peers = DialInsert(st.active_peers, t, c),
                    !.current_peer = [st.current_peer EXCEPT ![c] = t],
                    !.running = [st.running EXCEPT ![c] = TRUE]]
  IN  IF found = None /\ st.nconn >= MaxConns
        THEN [st EXCEPT !.active_peers = DialFailReg(st.active_peers, t)]
      ELSE IF s1.stream[c] = "open" /\ ~ExitBranch(text) THEN s1
      ELSE [s1 EXCEPT
              !.active_peers = SenderPop(s1.active_peers, t, c),
              !.stream = SenderClose(s1.stream, c)]

PairAccept(addr) ==
  /\ pair.cli.nconn < MaxConns \/ pair.web.nconn < MaxConns
  /\ pair' = [cli |-> HandleAccept("cli", pair.cli, addr),
              web |-> HandleAccept("web", pair.web, addr)]
  /\ UNCHANGED nodeVars

PairFrame(c, data) ==
  /\ pair.cli.running[c] \/ pair.web.running[c]
  /\ pair' = [cli |-> HandleFrame("cli", pair.cli, c, data),
              web |-> HandleFrame("web", pair.web, c, data)]
  /\ UNCHANGED nodeVars

PairSend(t, text) ==
  /\ pair' = [cli |-> HandleSend("cli", pair.cli, t, text),
              web |-> HandleSend("web", pair.web, t, text)]
  /\ UNCHANGED nodeVars

PairNext ==
  \/ \E addr \in AcceptAddrs : PairAccept(addr)
  \/ \E c \in Conns : \E data \in Frames : PairFrame(c, data)
  \/ \E t \in Targets : \E text \in Payloads \cup {ConnectMsg} : PairSend(t, text)

PairSpec == Init /\ [][PairNext]_vars

(***************************************************************************)
(* The registry lock, with its acquisition a step of its own.  The blocks  *)
(* are the actions above, taken by the thread that holds the lock; the     *)
(* call's entry and lookup, and the dial's connect and insert, which Spec  *)
(* takes in one step each, are taken apart here, since a blocking call     *)
(* stands between them and the block.                                      *)
(***************************************************************************)
LockFreeAlways(lock) == TRUE

\* threading.Lock: acquire() returns only while no thread holds the lock.
LockFree(lock) == lock = {}

\* The thread stands at the door of a "with peers_lock:".
AtBlock(t) ==
  CASE t = ListenerThread -> lpc = "register"
    [] t = MainThread -> mpc = "clear"
    [] t[1] = "handle_client" -> rpc[t[2]] \in {"rekey", "finally"}
    [] OTHER -> spc[t[2]] \in {"lookup", "insert", "pop_exit", "pop_fail"}

\* The thread is inside accept(), recv(), connect() or sendall().
Blocking(t) ==
  CASE t = ListenerThread -> lpc = "accept"
    [] t = MainThread -> FALSE
    [] t[1] = "handle_client" -> rpc[t[2]] = "recv"
    [] OTHER -> spc[t[2]] \in {"dial", "write"}

\* peers_lock.__enter__()
Acquire(t) ==
  /\ AtBlock(t)
  /\ t \notin peers_lock
  /\ LockFree(peers_lock)
  /\ peers_lock' = peers_lock \cup {t}
  /\ last' = Quiet("acquire")
  /\ UNCHANGED << pair, node, regVars, nconn, listenerVars, readerVars, callerVars,
                  mainVars >>

\* send_message / connect_to_peer is entered: target = (target_ip, target_port)
Enter(k, t, text) ==
  /\ spc[k] = "idle"
  /\ MayCall(k)
  /\ target' = [target EXCEPT ![k] = t]
  /\ message' = [message EXCEPT ![k] = text]
  /\ spc' = [spc EXCEPT ![k] = "lookup"]
  /\ last' = Quiet("enter")
  /\ UNCHANGED << pair, node, peers_lock, regVars, nconn, listenerVars, readerVars,
                  sock, is_new, mainVars >>

\* with peers_lock: sock = active_peers.get(target)
Lookup(k) ==
  /\ spc[k] = "lookup"
  /\ WithLock(CallerThread(k))
  /\ sock' = [sock EXCEPT ![k] = RegGet(active_peers, target[k])]
  /\ spc' = [spc EXCEPT ![k] =
               IF RegGet(active_peers, target[k]) = None THEN "dial" ELSE "write"]
  /\ last' = [CallerEv("lookup", k, "") EXCEPT !.c = RegGet(active_peers, target[k])]
  /\ UNCHANGED << pair, node, regVars, nconn, listenerVars, readerVars, target,
                  message, is_new, mainVars >>

\* sock = socket.socket(...); sock.connect(target) succeeds; settimeout(None)
Connect(k) ==
  /\ spc[k] = "dial"
  /\ nconn < MaxConns
  /\ nconn' = nconn + 1
  /\ stream' = [stream EXCEPT ![nconn + 1] = "open"]
  /\ sock' = [sock EXCEPT ![k] = nconn + 1]
  /\ is_new' = [is_new EXCEPT ![k] = TRUE]
  /\ spc' = [spc EXCEPT ![k] = "insert"]
  /\ last' = [CallerEv("connected", k, "dial") EXCEPT !.c = nconn + 1, !.n = TRUE]
  /\ UNCHANGED << pair, node, peers_lock, active_peers, listenerVars, readerVars,
                  target, message, mainVars >>

\* with peers_lock: active_peers[sock.getpeername()] = sock
Insert(k) ==
  /\ spc[k] = "insert"
  /\ WithLock(CallerThread(k))
  /\ stream' = InsertEvict(active_peers, stream, target[k])
  /\ active_peers' = DialInsert(active_peers, target[k], sock[k])
  /\ spc' = [spc EXCEPT ![k] = "start"]
  /\ last' = CallerEv("register", k, "dial")
  /\ UNCHANGED << pair, node, nconn, listenerVars, readerVars, target, message,
                  sock, is_new, mainVars >>

\* The blocks, run by the thread that has acquired the lock.
LockedListenerRegister == ListenerThread \in peers_lock /\ ListenerRegister
LockedReaderRekey(c) == ReaderThread(c) \in peers_lock /\ ReaderRekey(c)
LockedReaderFinally(c) == ReaderThread(c) \in peers_lock /\ ReaderFinally(c)
LockedLookup(k) == CallerThread(k) \in peers_lock /\ Lookup(k)
LockedInsert(k) == CallerThread(k) \in peers_lock /\ Insert(k)
LockedCallerPop(k) == CallerThread(k) \in peers_lock /\ CallerPop(k)
LockedShutdownClear == MainThread \in peers_lock /\ ShutdownClear

\* The end of the block the thread is in.
Release(t) ==
  CASE t = ListenerThread -> LockedListenerRegister
    [] t = MainThread -> LockedShutdownClear
    [] t[1] = "handle_client" -> LockedReaderRekey(t[2]) \/ LockedReaderFinally(t[2])
    [] OTHER -> LockedLookup(t[2]) \/ LockedInsert(t[2]) \/ LockedCallerPop(t[2])

\* The frames and the messages of this specification.
LockFrames ==
  { <<"C", "O", "N", "N", "E", "C", "T", ":", "8", "0">>,
    <<"h", "i">>,
    <<>> }

LockPayloads == {MixedCaseExit}

LockNext ==
  \/ \E t \in Threads : Acquire(t)
  \/ AcceptTimeout
  \/ AcceptError
  \/ \E addr \in AcceptAddrs : Accept(addr)
  \/ LockedListenerRegister
  \/ ListenerSpawn
  \/ \E c \in Conns :
       \/ RecvError(c)
       \/ \E data \in LockFrames : Recv(c, data)
       \/ LockedReaderRekey(c)
       \/ LockedReaderFinally(c)
  \/ \E k \in Callers :
       \/ \E t \in Targets : \E text \in LockPayloads : Enter(k, t, text)
       \/ LockedLookup(k)
       \/ DialFail(k)
       \/ Connect(k)
       \/ LockedInsert(k)
       \/ StartReader(k)
       \/ StartRaises(k)
       \/ WriteOk(k)
       \/ WriteFail(k)
       \/ LockedCallerPop(k)
       \/ CallerClose(k)
  \/ ShutdownSet
  \/ LockedShutdownClear
  \/ ShutdownListener

LockSpec == Init /\ [][LockNext]_vars

(***************************************************************************)
(* Properties.                                                             *)
(***************************************************************************)
\* C1: when a Reader whose socket is registered under its current address
\* applies a CONNECT frame, the registry then maps the declared address to
\* that socket, holds nothing at the address left when the two differ, and
\* the socket has no more keys than before.
C1_RekeyMovesEntry ==
  (last.op = "rekey" /\ last.e = last.c) =>
    /\ active_peers[last.a] = last.c
    /\ last.a # last.b => active_peers[last.b] = None
    /\ Cardinality(Entries(active_peers, last.c)) <= last.m

C1_Witness ==
  /\ last.op = "rekey"
  /\ last.e = last.c
  /\ last.b = <<"10.0.0.5", 70>>
  /\ last.a = <<"10.0.0.5", 80>>
  /\ Entries(active_peers, last.c) = {last.a}

\* C2 (as claimed): every registration at an address held by another
\* socket, by the Listener, by a caller's dial or by a re-key, leaves the
\* displaced socket closed and the address mapped to the new socket.
C2_DisplacedIsClosed ==
  (last.op \in {"register", "rekey"} /\ last.d \notin {None, last.c}) =>
    /\ stream[last.d] = "closed"
    /\ active_peers[last.a] = last.c

\* C3 (as claimed): the pop of an exiting Reader never removes an entry
\* that maps to another socket.
C3_CleanupSparesNewer ==
  (last.op = "cleanup" /\ last.d \notin {None, last.c}) =>
    active_peers[last.a] = last.d

\* C4 (as claimed): a call that found no entry and whose dial succeeded has
\* started a Reader for the new socket by the time it returns.
C4_DialAlwaysStartsReader ==
  (last.op = "return" /\ last.n) => rpc[last.c] # "none"

\* C4 (amended): the dial creates one new socket and registers it at the
\* target; the call then starts the Reader of that socket and writes to
\* it, unless another thread has closed the socket before the Reader is
\* started, in which case it returns with neither.
C4_SendNewConnection ==
  /\ (last.op = "register" /\ last.f = "dial") =>
       /\ active_peers[last.a] = last.c
       /\ last.c = nconn
       /\ stream[last.c] = "open"
       /\ rpc[last.c] = "none"
  /\ (last.op = "spawn" /\ last.f = "dial") =>
       /\ rpc[last.c] \in {"recv", "finally"}
       /\ current_peer[last.c] = last.a
  /\ (last.op = "return" /\ last.n) =>
       \/ last.f \in {"sent", "exit", "write_failed"} /\ rpc[last.c] # "none"
       \/ last.f = "start_failed" /\ stream[last.c] = "closed" /\ rpc[last.c] = "none"

C4_Witness ==
  /\ last.op = "return"
  /\ last.n
  /\ last.f = "sent"
  /\ last.g = <<"h", "i">>
  /\ active_peers[last.a] = last.c
  /\ rpc[last.c] = "recv"
  /\ stream[last.c] = "open"

\* C5 (as claimed): when send_message returns from its exit branch, the
\* registry holds no entry at the target and the socket written to is
\* closed.
C5_NoEntryAtReturn ==
  (last.op = "return" /\ last.f = "exit") =>
    /\ active_peers[last.a] = None
    /\ stream[last.c] = "closed"

\* C5 (amended): send_message with a payload that is "exit" in any letter
\* case takes the exit branch after the write; the pop leaves no entry at
\* the target, and at the return the socket written to is closed.
C5_Sentinel ==
  /\ (last.op = "return" /\ last.f = "sent") => last.g # MixedCaseExit
  /\ (last.op = "written" /\ last.g = MixedCaseExit) => spc[last.k] = "pop_exit"
  /\ (last.op = "pop" /\ last.f = "exit") => active_peers[last.a] = None
  /\ (last.op = "return" /\ last.f = "exit") => stream[last.c] = "closed"

C5_Witness ==
  /\ last.op = "return"
  /\ last.f = "exit"
  /\ last.g = MixedCaseExit
  /\ active_peers[last.a] = None
  /\ stream[last.c] = "closed"

\* C6: a re-key to the address its socket is already registered under, and
\* under no other, leaves the socket registered under that address alone,
\* and nothing at the address the Reader still holds as its own when that
\* is another one.
C6_RekeyIdempotent ==
  (/\ last.op = "rekey"
   /\ last.m = 1
   /\ \/ last.a = last.b /\ last.e = last.c
      \/ last.a # last.b /\ last.d = last.c) =>
    /\ Entries(active_peers, last.c) = {last.a}
    /\ last.a # last.b => active_peers[last.b] = None

C6_Witness ==
  /\ node = "cli"
  /\ last.op = "rekey"
  /\ last.m = 1
  /\ last.b = <<"10.0.0.5", 70>>
  /\ last.a = <<"10.0.0.5", 80>>
  /\ last.d = last.c
  /\ Entries(active_peers, last.c) = {last.a}

\* C7 (as claimed): a socket is inserted into the registry only while its
\* stream is open.
C7_InsertedOnlyWhileOpen ==
  /\ last.op = "rekey" => last.f = "open"
  /\ last.op = "register" => stream[last.c] = "open"

\* C8 (as claimed): once a Reader has ended, its socket is closed and the
\* registry holds no entry that maps to it.
C8_NoStaleEntries ==
  \A c \in Conns :
    rpc[c] = "done" => stream[c] = "closed" /\ Entries(active_peers, c) = {}

\* C9: a failed write leads to the pop, which leaves no entry at the
\* target, and the socket written to is closed when the call returns.
C9_WriteFailureCleanup ==
  /\ last.op = "write_failed" => spc[last.k] = "pop_fail"
  /\ (last.op = "pop" /\ last.f = "write_failed") => active_peers[last.a] = None
  /\ (last.op = "return" /\ last.f = "write_failed") => stream[last.c] = "closed"

C9_Witness ==
  /\ last.op = "pop"
  /\ last.f = "write_failed"
  /\ last.d = last.c
  /\ active_peers[last.a] = None

\* C10: the step of a failed dial, and the lookup before it, change
\* neither the registry nor any socket, and start no Reader.
C10_DialFailureFrame ==
  [][ (\/ last'.op = "return" /\ last'.f = "dial_failed"
       \/ last'.op = "lookup") =>
        /\ active_peers' = active_peers
        /\ stream' = stream
        /\ rpc' = rpc
        /\ nconn' = nconn ]_vars

C10_Witness ==
  /\ last.op = "return"
  /\ last.f = "dial_failed"
  /\ last.d # None
  /\ active_peers[last.a] = last.d

\* C11 (as claimed): the value a call returns after a failed dial or a
\* failed write differs from the value it returns after a write that
\* succeeded.
C11_ResultDistinguishes ==
  last.op = "return" =>
    /\ last.f \in {"dial_failed", "start_failed", "write_failed"} =>
         last.r # Result("sent")
    /\ last.f \in {"sent", "exit"} =>
         /\ last.r # Result("dial_failed")
         /\ last.r # Result("write_failed")

\* C12: a call whose lookup finds a socket registered at the target goes
\* straight to the write with that socket; its write is made on that
\* socket, and no step of the call creates a socket or starts a Reader.
C12_ReuseRegistered ==
  [][ /\ (last'.op = "lookup" /\ active_peers[last'.a] # None) =>
           /\ spc'[last'.k] = "write"
           /\ sock'[last'.k] = active_peers[last'.a]
           /\ ~is_new'[last'.k]
      /\ (/\ last'.op \in {"lookup", "written", "write_failed", "pop", "return"}
          /\ ~last'.n
          /\ last'.op = "lookup" => active_peers[last'.a] # None) =>
           /\ nconn' = nconn
           /\ rpc' = rpc
      /\ (/\ \/ last'.op = "written"
             \/ last'.op = "return" /\ last'.f = "sent"
          /\ ~last'.n) =>
           /\ last'.c = sock[last'.k]
           /\ last'.c # None
           /\ stream[last'.c] = "open" ]_vars

C12_Witness ==
  /\ node = "cli"
  /\ last.op = "return"
  /\ last.f = "sent"
  /\ ~last.n
  /\ last.a = <<"10.0.0.5", 80>>
  /\ active_peers[last.a] = last.c
  /\ current_peer[last.c] = <<"10.0.0.5", 70>>
  /\ rpc[last.c] = "recv"

\* C13 (as claimed): a re-key that finds its old address held by another
\* socket leaves that entry in the registry.
C13_RekeySparesOldHolder ==
  (/\ last.op = "rekey"
   /\ last.e \notin {None, last.c}
   /\ last.a # last.b) =>
    active_peers[last.b] = last.e

\* C14: a frame that starts with CONNECT: and whose remainder int() rejects
\* changes neither the registry, nor any socket, nor the Reader's
\* current_peer, and sends the Reader back to the top of its loop: to the
\* next recv, the shutdown flag not being set.
C14_MalformedHandshake ==
  [][ (last'.op = "frame" /\ last'.f = "badport") =>
        /\ active_peers' = active_peers
        /\ stream' = stream
        /\ stream'[last'.c] = "open"
        /\ current_peer' = current_peer
        /\ last'.a = current_peer[last'.c]
        /\ new_peer'[last'.c] = NoAddr
        /\ rpc'[last'.c] = IF shutdown_event THEN "finally" ELSE "recv" ]_vars

C14_Witness ==
  /\ last.op = "frame"
  /\ last.f = "badport"
  /\ rpc[last.c] = "recv"
  /\ stream[last.c] = "open"
  /\ current_peer[last.c] = <<"10.0.0.5", 70>>
  /\ active_peers[current_peer[last.c]] = last.c

\* C15 (as claimed): a chat message a Reader forwards after it has applied
\* a CONNECT frame is tagged with the address that frame declared.
C15_TaggedWithDeclared ==
  (/\ last.op = "frame"
   /\ last.f = "chat"
   /\ declared[last.c] # NoAddr) =>
    last.a = declared[last.c]

\* C20 (as claimed): a re-key leaves the stream of the socket it re-keys
\* as it was: open after the block if it was open before it.
C20_RekeyKeepsOwnStream ==
  (last.op = "rekey" /\ last.f = "open") => stream[last.c] = "open"

\* C16 (as claimed): when the shutdown sequence has run, and the Listener
\* and every call in progress have ended, each socket whose Reader is still
\* waiting in recv has been closed.
C16_ShutdownClosesStreams ==
  (/\ mpc = "done"
   /\ lpc = "stopped"
   /\ \A k \in Callers : spc[k] = "idle") =>
    \A c \in Conns : rpc[c] = "recv" => stream[c] = "closed"

\* C17: the Listener registers each accepted socket under the address
\* accept() returned while the socket has no Reader, then starts its
\* Reader, once; after an accept timeout it is back at the top of its loop
\* (accepting again, the shutdown flag not being set), and after any other
\* accept error it has stopped.
C17_ListenerStep ==
  [][ /\ last'.op = "accept" =>
           /\ lpc' = "register"
           /\ rpc'[last'.c] = "none"
           /\ acc' = [conn |-> last'.c, addr |-> last'.a]
      /\ (last'.op = "register" /\ last'.f = "accept") =>
           /\ last'.c = acc.conn
           /\ last'.a = acc.addr
           /\ active_peers'[acc.addr] = acc.conn
           /\ rpc[acc.conn] = "none"
           /\ rpc' = rpc
           /\ lpc' = "spawn"
      /\ (last'.op = "spawn" /\ last'.f = "accept") =>
           /\ last'.c = acc.conn
           /\ rpc[acc.conn] = "none"
           /\ rpc'[acc.conn] \in {"recv", "finally"}
           /\ \A c \in Conns \ {acc.conn} : rpc'[c] = rpc[c]
           /\ current_peer'[acc.conn] = acc.addr
      /\ last'.op = "accept_timeout" =>
           /\ lpc' = IF shutdown_event THEN "stopped" ELSE "accept"
           /\ active_peers' = active_peers
      /\ last'.op = "accept_error" => lpc' = "stopped" ]_vars

C17_Witness ==
  /\ last.op = "spawn"
  /\ last.f = "accept"
  /\ active_peers[last.a] = last.c
  /\ current_peer[last.c] = last.a
  /\ rpc[last.c] = "recv"
  /\ lpc = "accept"

\* C18: with the shutdown flag set the Listener never comes back to
\* accept() from a later point of its loop, so it accepts at most the
\* connection of the wait it is in, and once stopped it stays stopped;
\* and from the setting of the flag the Listener eventually stops.
C18_ListenerStops ==
  /\ [][ /\ (shutdown_event /\ lpc # "accept") => lpc' # "accept"
         /\ lpc = "stopped" => lpc' = "stopped"
         /\ shutdown_event => shutdown_event' ]_vars
  /\ (shutdown_event ~> lpc = "stopped")

C18_Witness ==
  /\ shutdown_event
  /\ mpc = "lclose"
  /\ last.op = "accept"
  /\ lpc = "register"

\* C19: at most one thread is inside a block of the registry lock; a
\* thread inside a block is in no accept, recv, connect or sendall; the
\* registry changes only in a step of a thread that holds the lock and
\* releases it with that step; a thread that holds the lock can always
\* run its block to the end, where it releases the lock; and a thread that
\* waits for the lock can take it, or the thread that holds it can release
\* it, so that no thread waits for a lock that is never released.
C19_LockDiscipline ==
  /\ [](Cardinality(peers_lock) <= 1)
  /\ [](\A t \in peers_lock : AtBlock(t) /\ ~Blocking(t) /\ ENABLED Release(t))
  /\ [](\A t \in Threads :
         (AtBlock(t) /\ t \notin peers_lock) =>
           \/ ENABLED Acquire(t)
           \/ \E u \in peers_lock : ENABLED Release(u))
  /\ [][active_peers' # active_peers => (peers_lock # {} /\ peers_lock' = {})]_vars

C19_Witness ==
  /\ peers_lock = {ReaderThread(1)}
  /\ rpc[1] = "rekey"
  /\ spc[1] = "insert"
  /\ lpc = "accept"

\* C21 (as claimed): the Reader's loop ends after a recv only on a
\* zero-length read, an exit frame or an error of the read.
C21_OnlyThreeEnders ==
  (last.op = "frame" /\ rpc[last.c] = "finally") =>
    last.f \in {"eof", "exit", "error"}

\* C21 (amended): a frame whose text is empty after decode().strip()
\* changes neither the registry, nor any socket, nor current_peer, and
\* sends the Reader back to the top of its loop; the loop ends after a
\* recv only on a zero-length read, an exit frame, an exception raised by
\* the read or by the decoding, or with the shutdown flag set.
C21_BlankFrame ==
  [][ /\ (last'.op = "frame" /\ last'.f = "blank") =>
           /\ active_peers' = active_peers
           /\ stream' = stream
           /\ stream'[last'.c] = "open"
           /\ current_peer' = current_peer
           /\ rpc'[last'.c] = IF shutdown_event THEN "finally" ELSE "recv"
      /\ (last'.op = "frame" /\ rpc'[last'.c] = "finally") =>
           \/ last'.f \in {"eof", "exit", "error", "raise"}
           \/ shutdown_event ]_vars

C21_Witness ==
  /\ last.op = "frame"
  /\ last.f = "blank"
  /\ rpc[last.c] = "recv"
  /\ stream[last.c] = "open"
  /\ active_peers[current_peer[last.c]] = last.c

\* C23 (as claimed): every socket is registered under at most one address.
C23_RegistryInjective ==
  \A c \in Conns : Cardinality(Entries(active_peers, c)) <= 1

\* C24 (as claimed): the pop that a call performs after an exit payload or
\* a failed write leaves in place an entry at the target that maps to a
\* socket other than the one the call wrote to.
C24_SenderPopGuarded ==
  (last.op = "pop" /\ last.d \notin {None, last.c}) =>
    active_peers[last.a] = last.d

\* C25 (as claimed): once the shutdown sequence has cleared the registry,
\* the registry is empty.
C25_EmptyAfterShutdown ==
  mpc \in {"lclose", "done"} => \A a \in Addr : active_peers[a] = None

\* C22 (as claimed): of the calls in progress to one target, one at most
\* has dialled; and when no call is in progress, every open socket whose
\* Reader is waiting in recv is in the registry.
C22_OneDialPerTarget ==
  /\ (last.op = "register" /\ last.f = "dial") =>
       \A j \in Callers \ {last.k} : ~(is_new[j] /\ target[j] = last.a)
  /\ (\A k \in Callers : spc[k] = "idle") =>
       \A c \in Conns :
         (stream[c] = "open" /\ rpc[c] = "recv") =>
           Entries(active_peers, c) # {}

\* C26 (as claimed): given the same events, the command-line program and
\* the web program have the same registry and the same open sockets after
\* each event.
C26_SameRegistryMachine ==
  /\ pair.cli.active_peers = pair.web.active_peers
  /\ {c \in Conns : pair.cli.stream[c] = "open"} =
       {c \in Conns : pair.web.stream[c] = "open"}

====
